---- MODULE Spec2Model ----
(***************************************************************************)
(* Hacker Stories search UI: the stories reducer, the fetch orchestration   *)
(* of App (single-url revision App.tsx / history revision App.js), the     *)
(* semi-persistent search term and the sortable List.                      *)
(***************************************************************************)
EXTENDS Naturals, Sequences, FiniteSets, TLC

VARIABLES
    revision,     \* which revision of App runs: "App.tsx", "part_000" or "App.js"
    phase,        \* "init" (rendered, effects not yet run), "running", "crashed"
    storage,      \* localStorage: a partial map from keys to strings
    searchTerm,   \* App: useSemiPersistentState('search', 'React')
    urls,         \* App.js: urls; App.tsx: the one-element list <<url>>
    stories,      \* App: useReducer(storiesReducer, ...)
    sort,         \* List: useState sort
    sortedList,   \* List: the derived view of the last render
    requests,     \* every axios.get issued so far, in issue order
    newestOutcome,\* the terminal action of the request issued last (none while pending)
    urlChanges,   \* number of changes of the active url value (mount = first)
    lastEvent,    \* the handler that ran in the last step
    lastAction,   \* the reducer action dispatched last
    origData,     \* data as of the last full replacement
    removedIds,   \* objectIDs removed since then
    tracing       \* whether a request records the data held when it was issued

vars == <<revision, phase, storage, searchTerm, urls, stories, sort, sortedList,
          requests, newestOutcome, urlChanges, lastEvent, lastAction, origData,
          removedIds, tracing>>

-----------------------------------------------------------------------------
(* Bounds *)

MaxRequests == 3

MaxListLen == 3

-----------------------------------------------------------------------------
(* Data *)

\* Story records; title and author are strings, held as sequences of code units
\* so that they can be compared the way JavaScript compares strings.
Story1 == [objectID |-> "1", title |-> <<1>>, author |-> <<2>>,
           num_comments |-> 1, points |-> 2]

Story2 == [objectID |-> "2", title |-> <<1, 2>>, author |-> <<1>>,
           num_comments |-> 1, points |-> 1]

Story3 == [objectID |-> "3", title |-> <<1>>, author |-> <<2, 1>>,
           num_comments |-> 0, points |-> 2]

StorySet == {Story1, Story2, Story3}

\* every list of stories of at most MaxListLen entries (repeats included)
InputLists == UNION {[1..n -> StorySet] : n \in 0..MaxListLen}

\* the hits collections the API answers with
Hits == {<<Story1, Story2>>, <<Story3>>}

\* JavaScript's undefined where a list is expected: a value that is no list of
\* stories and that compares unequal to every one of them
Undefined == <<[undefined |-> TRUE]>>

\* what the user can have typed in the search input, or stored earlier
Terms == {"", "React", "Redux"}

NoAction == [type |-> "NONE"]

-----------------------------------------------------------------------------
(* Module-level functions *)

API_ENDPOINT == "https://hn.algolia.com/api/v1/search?query="

getUrl(term) == API_ENDPOINT \o term

\* STORIES_FETCH_INIT that forgets to clear the error flag
reduceFetchInitKeepsError(state) ==
    [state EXCEPT !.isLoading = TRUE]

\* STORIES_FETCH_INIT that forgets to set the loading flag
reduceFetchInitNotLoading(state) ==
    [state EXCEPT !.isError = FALSE]

\* case 'STORIES_FETCH_INIT'
reduceFetchInit(state) ==
    [state EXCEPT !.isLoading = TRUE, !.isError = FALSE]

\* STORIES_FETCH_SUCCESS that forgets to clear the error flag
reduceFetchSuccessKeepsError(state, action) ==
    [state EXCEPT !.isLoading = FALSE, !.data = action.payload]

\* case 'STORIES_FETCH_SUCCESS'
reduceFetchSuccess(state, action) ==
    [state EXCEPT !.isLoading = FALSE, !.isError = FALSE, !.data = action.payload]

\* STORIES_FETCH_FAILURE that also drops the list
reduceFetchFailureClearsData(state) ==
    [state EXCEPT !.isLoading = FALSE, !.isError = TRUE, !.data = <<>>]

\* STORIES_FETCH_FAILURE that leaves the loading flag set
reduceFetchFailureStaysLoading(state) ==
    [state EXCEPT !.isError = TRUE]

\* case 'STORIES_FETCH_FAILURE'
reduceFetchFailure(state) ==
    [state EXCEPT !.isLoading = FALSE, !.isError = TRUE]

\* REMOVE_STORY that removes the first matching entry only
reduceRemoveStoryFirstOnly(state, action) ==
    LET hit == {i \in 1..Len(state.data) :
                   state.data[i].objectID = action.payload.objectID}
    IN  IF hit = {} THEN state
        ELSE LET p == CHOOSE i \in hit : \A j \in hit : i <= j
             IN  [state EXCEPT !.data = SubSeq(state.data, 1, p - 1)
                                        \o SubSeq(state.data, p + 1, Len(state.data))]

\* case 'REMOVE_STORY'
reduceRemoveStory(state, action) ==
    [state EXCEPT !.data =
        SelectSeq(state.data,
                  LAMBDA story : action.payload.objectID # story.objectID)]

storiesReducer(state, action) ==
    CASE action.type = "STORIES_FETCH_INIT"    -> reduceFetchInit(state)
      [] action.type = "STORIES_FETCH_SUCCESS" -> reduceFetchSuccess(state, action)
      [] action.type = "STORIES_FETCH_FAILURE" -> reduceFetchFailure(state)
      [] action.type = "REMOVE_STORY"          -> reduceRemoveStory(state, action)

initialStories == [data |-> <<>>, isLoading |-> FALSE, isError |-> FALSE]

\* localStorage.getItem(key) || initialState: null and '' are both falsy
useSemiPersistentStateInit(store, key, initialState) ==
    IF key \in DOMAIN store /\ store[key] # "" THEN store[key] ELSE initialState

\* setItem that writes only while the key is absent
setItemOnlyIfAbsent(store, key, value) ==
    [k \in DOMAIN store \cup {key} |-> IF k \in DOMAIN store THEN store[k] ELSE value]

\* localStorage.setItem(key, value)
setItem(store, key, value) ==
    [k \in DOMAIN store \cup {key} |-> IF k = key THEN value ELSE store[k]]

-----------------------------------------------------------------------------
(* Sorting *)

Reverse(s) == [i \in 1..Len(s) |-> s[Len(s) + 1 - i]]

\* a < b on strings: by code units, a proper prefix being smaller
StringLess(a, b) ==
    \/ \E i \in 1..Len(a) :
          /\ i <= Len(b)
          /\ a[i] < b[i]
          /\ \A j \in 1..(i - 1) : a[j] = b[j]
    \/ /\ Len(a) < Len(b)
       /\ \A j \in 1..Len(a) : a[j] = b[j]

\* lodash compareAscending(value, other) < 0 on the iteratee's values
ValueLess(x, y, field) ==
    IF field \in {"title", "author"}
    THEN StringLess(x[field], y[field])
    ELSE x[field] < y[field]

\* x put behind every entry that does not compare greater (ties keep their order)
InsertSorted(sorted, x, field) ==
    LET greater == {i \in 1..Len(sorted) : ValueLess(x, sorted[i], field)}
        p == IF greater = {} THEN Len(sorted) + 1
             ELSE CHOOSE i \in greater : \A j \in greater : i <= j
    IN  SubSeq(sorted, 1, p - 1) \o <<x>> \o SubSeq(sorted, p, Len(sorted))

RECURSIVE sortBy(_, _)
\* lodash sortBy(list, field): a new array, ascending, stable
sortBy(list, field) ==
    IF list = <<>> THEN <<>>
    ELSE InsertSorted(sortBy(SubSeq(list, 1, Len(list) - 1), field),
                      list[Len(list)], field)

\* SORTS whose TITLE sorts the array passed in, in place (list.sort)
SORTSTitleInPlace(key, list) ==
    CASE key = "NONE"    -> [out |-> list, fresh |-> FALSE]
      [] key = "TITLE"   -> [out |-> sortBy(list, "title"), fresh |-> FALSE]
      [] key = "AUTHOR"  -> [out |-> sortBy(list, "author"), fresh |-> TRUE]
      [] key = "COMMENT" -> [out |-> Reverse(sortBy(list, "num_comments")),
                             fresh |-> TRUE]
      [] key = "POINT"   -> [out |-> Reverse(sortBy(list, "points")),
                             fresh |-> TRUE]

\* SORTS whose COMMENT misses the .reverse()
SORTSCommentAscending(key, list) ==
    CASE key = "NONE"    -> [out |-> list, fresh |-> FALSE]
      [] key = "TITLE"   -> [out |-> sortBy(list, "title"), fresh |-> TRUE]
      [] key = "AUTHOR"  -> [out |-> sortBy(list, "author"), fresh |-> TRUE]
      [] key = "COMMENT" -> [out |-> sortBy(list, "num_comments"), fresh |-> TRUE]
      [] key = "POINT"   -> [out |-> Reverse(sortBy(list, "points")),
                             fresh |-> TRUE]

\* SORTS[key](list): the array returned, and whether it is a new array (fresh)
\* or the very array passed in
SORTS(key, list) ==
    CASE key = "NONE"    -> [out |-> list, fresh |-> FALSE]
      [] key = "TITLE"   -> [out |-> sortBy(list, "title"), fresh |-> TRUE]
      [] key = "AUTHOR"  -> [out |-> sortBy(list, "author"), fresh |-> TRUE]
      [] key = "COMMENT" -> [out |-> Reverse(sortBy(list, "num_comments")),
                             fresh |-> TRUE]
      [] key = "POINT"   -> [out |-> Reverse(sortBy(list, "points")),
                             fresh |-> TRUE]

SortKeys == {"TITLE", "AUTHOR", "COMMENT", "POINT"}

initialSort == [sortKey |-> "NONE", isReverse |-> FALSE]

\* a render that forgets the direction
ListRenderIgnoresReverse(list, srt) ==
    LET r == SORTS(srt.sortKey, list)
    IN  [view |-> r.out, input |-> IF r.fresh THEN list ELSE r.out]

\* List's render: sortedList, and the list prop as the render leaves it.
\* Array.prototype.reverse reverses in place the array it is called on, so
\* when the sort function hands back the very array passed in, that array
\* ends up holding what sortedList holds.
ListRender(list, srt) ==
    LET r == SORTS(srt.sortKey, list)
        view == IF srt.isReverse THEN Reverse(r.out) ELSE r.out
    IN  [view |-> view, input |-> IF r.fresh THEN list ELSE view]

\* handleSort that toggles the direction whatever key is clicked
handleSortAlwaysToggles(srt, sortKey) ==
    [sortKey |-> sortKey, isReverse |-> ~srt.isReverse]

\* List.handleSort(sortKey): the next sort state
handleSort(srt, sortKey) ==
    IF revision = "App.js"
    THEN [sortKey   |-> sortKey,
          isReverse |-> (srt.sortKey = sortKey /\ ~srt.isReverse)]
    ELSE [sortKey |-> sortKey, isReverse |-> FALSE]

-----------------------------------------------------------------------------
(* Search history (App.js) *)

\* String.prototype.replace(pattern, replacement) with a string pattern: the
\* first occurrence only
replace(s, pattern, replacement) ==
    LET n == Len(pattern)
        at == {i \in 1..(Len(s) + 1 - n) : SubSeq(s, i, i + n - 1) = pattern}
    IN  IF n > Len(s) \/ at = {} THEN s
        ELSE LET p == CHOOSE i \in at : \A j \in at : i <= j
             IN  SubSeq(s, 1, p - 1) \o replacement \o SubSeq(s, p + n, Len(s))

extractSearchTerm(url) == replace(url, API_ENDPOINT, "")

HistoryLength == 5

\* urls.slice(-5).map(extractSearchTerm)
getLastSearches(us) ==
    LET from == IF Len(us) > HistoryLength THEN Len(us) - HistoryLength + 1 ELSE 1
        last == SubSeq(us, from, Len(us))
    IN  [i \in 1..Len(last) |-> extractSearchTerm(last[i])]

-----------------------------------------------------------------------------
(* App *)

Pending(reqs) == {i \in 1..Len(reqs) : reqs[i].status = "pending"}

\* what one render of App leaves: List is rendered only while not loading (it
\* is unmounted, and its sort state lost, while the loading text is shown); a
\* list prop that is no array makes List's render throw, which tears the
\* whole tree down
AppRender(st, srt) ==
    IF st.isLoading
    THEN [stories |-> st, sort |-> initialSort, sortedList |-> <<>>,
          phase |-> "running"]
    ELSE IF st.data = Undefined
    THEN [stories |-> st, sort |-> srt, sortedList |-> <<>>, phase |-> "crashed"]
    ELSE LET r == ListRender(st.data, srt)
         IN  [stories |-> [st EXCEPT !.data = r.input], sort |-> srt,
              sortedList |-> r.view, phase |-> "running"]

Commit(st, srt) ==
    \E r \in {AppRender(st, srt)} :
        /\ stories' = r.stories
        /\ sort' = r.sort
        /\ sortedList' = r.sortedList
        /\ phase' = r.phase

\* handleFetchStories up to its await: STORIES_FETCH_INIT, then axios.get on
\* the active url
handleFetchStories(st, reqs, us) ==
    [stories  |-> storiesReducer(st, [type |-> "STORIES_FETCH_INIT"]),
     requests |-> Append(reqs, [url |-> us[Len(us)], status |-> "pending",
                                dataAtInit |-> IF tracing THEN st.data ELSE <<>>])]

\* the url state after handleSearch(term) / setUrl(...)
nextUrls(us, term) ==
    IF revision = "App.js" THEN Append(us, getUrl(term)) ELSE <<getUrl(term)>>

\* every submit re-creates handleFetchStories, an equal url included
urlsChangedAlways(us, term) == TRUE

\* whether the state update re-creates handleFetchStories (its dependency
\* changed by Object.is): a new array always does, an equal string does not
urlsChanged(us, term) ==
    IF revision = "App.js" THEN TRUE ELSE getUrl(term) # us[1]

\* first effects after the first render: setItem, handleFetchStories
Mount ==
    /\ phase = "init"
    /\ storage' = setItem(storage, "search", searchTerm)
    /\ LET f == handleFetchStories(stories, requests, urls)
       IN  /\ requests' = f.requests
           /\ Commit(f.stories, sort)
    /\ urlChanges' = urlChanges + 1
    /\ newestOutcome' = NoAction
    /\ lastEvent' = [type |-> "MOUNT"]
    /\ lastAction' = [type |-> "STORIES_FETCH_INIT"]
    /\ UNCHANGED <<revision, tracing, searchTerm, urls, origData, removedIds>>

\* handleSearchInput on a change event of the input (its value differs from the
\* one shown): setSearchTerm, then the setItem effect
HandleSearchInput(value) ==
    /\ phase = "running"
    /\ value # searchTerm
    /\ searchTerm' = value
    /\ storage' = setItem(storage, "search", value)
    /\ Commit(stories, sort)
    /\ lastEvent' = [type |-> "INPUT"]
    /\ lastAction' = NoAction
    /\ UNCHANGED <<revision, tracing, urls, requests, newestOutcome,
                   urlChanges, origData, removedIds>>

\* handleSearch(term) / setUrl(...), the re-render and the effect it triggers
Search(term, event) ==
    /\ Len(requests) < MaxRequests
    /\ lastEvent' = event
    /\ IF urlsChanged(urls, term)
       THEN /\ urls' = nextUrls(urls, term)
            /\ LET f == handleFetchStories(stories, requests, urls')
               IN  /\ requests' = f.requests
                   /\ Commit(f.stories, sort)
            /\ lastAction' = [type |-> "STORIES_FETCH_INIT"]
            /\ newestOutcome' = NoAction
       ELSE /\ UNCHANGED <<urls, requests, stories, sort, sortedList, phase,
                           newestOutcome>>
            /\ lastAction' = NoAction
    /\ urlChanges' =
          IF urls'[Len(urls')] # urls[Len(urls)] THEN urlChanges + 1 ELSE urlChanges
    /\ UNCHANGED <<revision, tracing, storage, searchTerm, origData,
                   removedIds>>

\* the form's submit; the submit button is disabled while searchTerm is empty
HandleSearchSubmit ==
    /\ phase = "running"
    /\ searchTerm # ""
    /\ Search(searchTerm, [type |-> "SUBMIT"])

\* handleLastSearch = url => handleSearch(searchTerm): the term searched for
\* when the button showing `clicked` is clicked is the searchTerm of the
\* render's closure, not the argument
handleLastSearch(clicked, current) == current

\* a click on the i-th history button (App.js)
HandleLastSearch(i) ==
    /\ phase = "running"
    /\ revision = "App.js"
    /\ i \in 1..Len(getLastSearches(urls))
    /\ \E clicked \in {getLastSearches(urls)[i]} :
          Search(handleLastSearch(clicked, searchTerm),
                 [type |-> "HISTORY", term |-> clicked])

\* a click on the remove button of a rendered row
HandleRemoveStory(item) ==
    /\ phase = "running"
    /\ ~stories.isLoading
    /\ \E i \in 1..Len(sortedList) : sortedList[i] = item
    /\ Commit(storiesReducer(stories, [type |-> "REMOVE_STORY", payload |-> item]),
              sort)
    /\ lastEvent' = [type |-> "REMOVE"]
    /\ lastAction' = [type |-> "REMOVE_STORY", payload |-> item]
    /\ UNCHANGED <<revision, tracing, storage, searchTerm, urls, requests,
                   newestOutcome, urlChanges, origData, removedIds>>

\* the action handleFetchStories dispatches once its axios.get settles:
\*   "hits"   2xx, the body has a hits collection
\*   "nohits" 2xx, the body has no hits field (result.data.hits is undefined)
\*   "reject" network error or non-2xx status: the promise rejects
terminalAction(outcome, hits) ==
    CASE outcome = "hits"   -> [type |-> "STORIES_FETCH_SUCCESS", payload |-> hits]
      [] outcome = "nohits" -> [type |-> "STORIES_FETCH_SUCCESS",
                                payload |-> Undefined]
      [] outcome = "reject" -> [type |-> "STORIES_FETCH_FAILURE"]

Outcomes == {"hits", "nohits", "reject"}

\* request i settles
Resolve(i, outcome, hits) ==
    /\ phase = "running"
    /\ i \in Pending(requests)
    /\ requests' = [requests EXCEPT ![i].status = "settled",
                                    ![i].dataAtInit = <<>>]
    /\ LET a == terminalAction(outcome, hits)
       IN  /\ Commit(storiesReducer(stories, a), sort)
           /\ lastAction' = a
           /\ newestOutcome' = IF i = Len(requests) THEN a ELSE newestOutcome
    /\ lastEvent' = [type |-> "RESOLVE", outcome |-> outcome]
    /\ UNCHANGED <<revision, tracing, storage, searchTerm, urls, urlChanges, origData,
                   removedIds>>

InitApp ==
    /\ revision \in {"App.tsx", "App.js"}
    /\ phase = "init"
    /\ storage \in {<<>>} \cup {[k \in {"search"} |-> t] : t \in Terms}
    /\ searchTerm = useSemiPersistentStateInit(storage, "search", "React")
    /\ urls = <<getUrl(searchTerm)>>
    /\ stories = initialStories
    /\ sort = initialSort
    /\ sortedList = <<>>
    /\ requests = <<>>
    /\ newestOutcome = NoAction
    /\ urlChanges = 0
    /\ lastEvent = [type |-> "NONE"]
    /\ lastAction = NoAction
    /\ origData = <<>>
    /\ removedIds = {}

Init == InitApp /\ tracing = FALSE

Next ==
    \/ Mount
    \/ \E value \in Terms : HandleSearchInput(value)
    \/ HandleSearchSubmit
    \/ \E i \in 1..HistoryLength : HandleLastSearch(i)
    \/ \E item \in StorySet : HandleRemoveStory(item)
    \/ \E i \in 1..MaxRequests, outcome \in Outcomes :
          \E hits \in (IF outcome = "hits" THEN Hits ELSE {<<>>}) :
             Resolve(i, outcome, hits)

Spec == Init /\ [][Next]_vars

\* the same app, every request recording the data held when it was issued
InitTraced == InitApp /\ tracing = TRUE

SpecTraced == InitTraced /\ [][Next]_vars

-----------------------------------------------------------------------------
(* The reducer on its own: any state, any sequence of actions *)

StoriesStates ==
    [data : InputLists, isLoading : BOOLEAN, isError : BOOLEAN]

Dispatch(action) ==
    /\ stories' = storiesReducer(stories, action)
    /\ lastAction' = action
    /\ origData' = IF action.type = "STORIES_FETCH_SUCCESS"
                   THEN action.payload ELSE origData
    /\ removedIds' =
          CASE action.type = "STORIES_FETCH_SUCCESS" -> {}
            [] action.type = "REMOVE_STORY" ->
                  removedIds \cup {action.payload.objectID}
            [] OTHER -> removedIds
    /\ UNCHANGED <<revision, tracing, phase, storage, searchTerm, urls, sort, sortedList,
                   requests, newestOutcome, urlChanges, lastEvent>>

DispatchFetchInit == Dispatch([type |-> "STORIES_FETCH_INIT"])

DispatchFetchSuccess(payload) ==
    Dispatch([type |-> "STORIES_FETCH_SUCCESS", payload |-> payload])

DispatchFetchFailure == Dispatch([type |-> "STORIES_FETCH_FAILURE"])

DispatchRemoveStory(item) ==
    Dispatch([type |-> "REMOVE_STORY", payload |-> item])

InitReducer ==
    /\ stories \in StoriesStates
    /\ origData = stories.data
    /\ removedIds = {}
    /\ lastAction = NoAction
    /\ revision = "App.js"
    /\ phase = "running"
    /\ storage = <<>>
    /\ searchTerm = "React"
    /\ urls = <<getUrl("React")>>
    /\ sort = initialSort
    /\ sortedList = <<>>
    /\ requests = <<>>
    /\ newestOutcome = NoAction
    /\ urlChanges = 0
    /\ lastEvent = [type |-> "NONE"]
    /\ tracing = FALSE

NextReducer ==
    \/ DispatchFetchInit
    \/ \E payload \in InputLists : DispatchFetchSuccess(payload)
    \/ DispatchFetchFailure
    \/ \E item \in StorySet : DispatchRemoveStory(item)

SpecReducer == InitReducer /\ [][NextReducer]_vars

-----------------------------------------------------------------------------
(* List on its own: any list prop, any sequence of header clicks, removals    *)
(* and re-renders of the parent                                             *)

\* a click on a column header
HandleSortClick(sortKey) ==
    /\ phase = "running"
    /\ ~stories.isLoading
    /\ revision \in {"part_000", "App.js"}
    /\ Commit(stories, handleSort(sort, sortKey))
    /\ lastEvent' = [type |-> "SORT", key |-> sortKey]
    /\ lastAction' = NoAction
    /\ UNCHANGED <<revision, tracing, storage, searchTerm, urls, requests,
                   newestOutcome, urlChanges, origData, removedIds>>

\* App after its first request answered with some hits
InitList ==
    /\ revision \in {"part_000", "App.js"}
    /\ phase = "running"
    /\ storage = [k \in {"search"} |-> "React"]
    /\ searchTerm = "React"
    /\ urls = <<getUrl("React")>>
    /\ stories \in {[data |-> d, isLoading |-> FALSE, isError |-> FALSE] :
                      d \in InputLists}
    /\ sort = initialSort
    /\ sortedList = ListRender(stories.data, initialSort).view
    /\ requests = <<[url |-> getUrl("React"), status |-> "settled",
                     dataAtInit |-> <<>>]>>
    /\ newestOutcome = [type |-> "STORIES_FETCH_SUCCESS", payload |-> stories.data]
    /\ urlChanges = 1
    /\ lastEvent = [type |-> "RESOLVE", outcome |-> "hits"]
    /\ lastAction = newestOutcome
    /\ origData = stories.data
    /\ removedIds = {}
    /\ tracing = FALSE

NextList ==
    \/ \E sortKey \in SortKeys : HandleSortClick(sortKey)
    \/ \E item \in StorySet : HandleRemoveStory(item)
    \/ \E value \in Terms : HandleSearchInput(value)

SpecList == InitList /\ [][NextList]_vars

-----------------------------------------------------------------------------
(* Properties *)

FetchInit == "STORIES_FETCH_INIT"

FetchSuccess == "STORIES_FETCH_SUCCESS"

FetchFailure == "STORIES_FETCH_FAILURE"

\* C1 (SpecReducer): whatever the flags were before, the state the reducer
\* returns has isLoading and ~isError after STORIES_FETCH_INIT, neither flag
\* and data = payload after STORIES_FETCH_SUCCESS, and ~isLoading and isError
\* after STORIES_FETCH_FAILURE.
C1_ReducerFlags ==
    /\ lastAction.type = FetchInit => stories.isLoading /\ ~stories.isError
    /\ lastAction.type = FetchSuccess =>
          /\ ~stories.isLoading
          /\ ~stories.isError
          /\ stories.data = lastAction.payload
    /\ lastAction.type = FetchFailure => ~stories.isLoading /\ stories.isError

C1_Witness ==
    /\ lastAction.type = FetchFailure
    /\ stories.isError
    /\ ~stories.isLoading
    /\ Len(stories.data) >= 2

\* C2 (Spec): in every state the app reaches by mounts, submits, history
\* clicks, removals and request settlements, isLoading and isError are never
\* both true.
C2_NeverLoadingAndError == ~(stories.isLoading /\ stories.isError)

\* an error shown while a later request is still outstanding
C2_Witness ==
    /\ phase = "running"
    /\ stories.isError
    /\ Pending(requests) # {}
    /\ Len(requests) >= 2

\* C3 (SpecReducer): after any sequence of REMOVE_STORY actions data is the
\* subsequence of the original data whose objectID is none of the removed
\* ones, in the original order; removing an objectID that is not there
\* changes nothing.
C3_RemoveIsFilter ==
    stories.data = SelectSeq(origData, LAMBDA s : s.objectID \notin removedIds)

\* one removed id was present, another was not, and entries remain
C3_Witness ==
    /\ \E id \in removedIds : \E i \in 1..Len(origData) : origData[i].objectID = id
    /\ \E id \in removedIds : \A i \in 1..Len(origData) : origData[i].objectID # id
    /\ Len(stories.data) >= 2
    /\ lastAction.type = "REMOVE_STORY"

\* C4 as stated (Spec): the number of GETs issued equals the number of changes
\* of the active url value, the mount counting as the first.
C4_GetsEqualUrlValueChanges ==
    phase # "init" => Len(requests) = urlChanges

\* what every step that issues a GET looks like: exactly one GET, against the
\* active url, STORIES_FETCH_INIT dispatched in the same handler run, and a
\* mount, a submit or a history click behind it
C4_IssueStep ==
    Len(requests') # Len(requests) =>
        /\ Len(requests') = Len(requests) + 1
        /\ requests'[Len(requests')].url = urls'[Len(urls')]
        /\ requests'[Len(requests')].status = "pending"
        /\ lastAction'.type = FetchInit
        /\ stories'.isLoading /\ ~stories'.isError
        /\ lastEvent'.type \in {"MOUNT", "SUBMIT", "HISTORY"}

\* C4 amended (Spec): the number of GETs issued equals the number of times the
\* url state is replaced, the mount counting as the first: in App.tsx that is
\* the number of changes of the url value, in App.js every handleSearch call
\* appends to urls, an unchanged url included, and issues one GET. Each such
\* step issues exactly one GET against the active url with
\* STORIES_FETCH_INIT dispatched right before it, and no other step issues one.
C4_GetsEqualUrlStateChanges ==
    [][ /\ C4_IssueStep
        /\ phase' # "init" =>
              /\ revision = "App.tsx" => Len(requests') = urlChanges'
              /\ revision = "App.js" => Len(requests') = Len(urls')
        /\ urls' # urls => Len(requests') = Len(requests) + 1
        /\ (revision = "App.js" /\ lastEvent'.type \in {"SUBMIT", "HISTORY"}) =>
              Len(requests') = Len(requests) + 1
      ]_vars

\* App.js after the same term was submitted again: a GET without a change of
\* the active url value
C4_Witness ==
    /\ revision = "App.js"
    /\ lastEvent.type = "SUBMIT"
    /\ Len(requests) = urlChanges + 1
    /\ Len(urls) = Len(requests)

\* C5 as stated (Spec): a request that settles dispatches STORIES_FETCH_SUCCESS
\* when the response is good and STORIES_FETCH_FAILURE for every failure, a
\* body without the hits collection included.
C5_FailureForEveryFailure ==
    lastEvent.type = "RESOLVE" =>
        /\ lastEvent.outcome = "hits" =>
              lastAction.type = FetchSuccess /\ lastAction.payload \in Hits
        /\ lastEvent.outcome \in {"nohits", "reject"} =>
              lastAction.type = FetchFailure

\* C6 as stated (Spec): once no request is outstanding, the state is the one
\* the outcome of the most recently issued request produces.
C6_NewestRequestWins ==
    ( /\ phase = "running"
      /\ requests # <<>>
      /\ Pending(requests) = {}
      /\ lastEvent.type = "RESOLVE" ) =>
        /\ ~stories.isLoading
        /\ stories.isError = (newestOutcome.type = FetchFailure)
        /\ newestOutcome.type = FetchSuccess => stories.data = newestOutcome.payload

\* C7 as stated (Spec): no GET is issued but by a mount, a submit or a history
\* click, and a submit made in the failed state issues a new GET and
\* dispatches STORIES_FETCH_INIT, in App.tsx and in App.js alike.
C7_ResubmitRetries ==
    [][ /\ Len(requests') > Len(requests) =>
              lastEvent'.type \in {"MOUNT", "SUBMIT", "HISTORY"}
        /\ (lastEvent'.type = "SUBMIT" /\ stories.isError) =>
              /\ Len(requests') = Len(requests) + 1
              /\ lastAction'.type = FetchInit
              /\ stories'.isLoading
      ]_vars

\* C8 (SpecList): handleSort(k) in App.js sets sortKey to k; isReverse is
\* negated when k is the active key and becomes false when it is another.
C8_HandleSort ==
    [][ (revision = "App.js" /\ lastEvent'.type = "SORT") =>
            /\ sort'.sortKey = lastEvent'.key
            /\ lastEvent'.key = sort.sortKey => sort'.isReverse = ~sort.isReverse
            /\ lastEvent'.key # sort.sortKey => sort'.isReverse = FALSE
      ]_vars

\* TITLE clicked twice
C8_Witness ==
    /\ revision = "App.js"
    /\ lastEvent = [type |-> "SORT", key |-> "TITLE"]
    /\ sort = [sortKey |-> "TITLE", isReverse |-> TRUE]

\* C9 (SpecList): no header click and no re-render changes the data held in
\* the state; a removal changes it by the removed entries only.
C9_InputNeverMutated ==
    [][ /\ lastEvent'.type \in {"SORT", "INPUT"} => stories'.data = stories.data
        /\ lastEvent'.type = "REMOVE" =>
              LET id == lastAction'.payload.objectID
              IN  stories'.data = SelectSeq(stories.data, LAMBDA s : s.objectID # id)
      ]_vars

\* a reversed view that differs from the data it was derived from
C9_Witness ==
    /\ sort.isReverse
    /\ lastEvent.type = "SORT"
    /\ Len(stories.data) >= 3
    /\ sortedList # stories.data
    /\ sortedList # Reverse(stories.data)

Count(list, x) == Cardinality({i \in 1..Len(list) : list[i] = x})

IsPermutation(a, b) ==
    /\ Len(a) = Len(b)
    /\ \A x \in StorySet : Count(a, x) = Count(b, x)

\* C10 (SpecList): the view of a base ordering function is a permutation of
\* the list; NONE keeps the order, TITLE and AUTHOR are non-decreasing in
\* title resp. author, COMMENT and POINT non-increasing in num_comments
\* resp. points.
C10_BaseOrderings ==
    ~sort.isReverse =>
        /\ IsPermutation(sortedList, stories.data)
        /\ sort.sortKey = "NONE" => sortedList = stories.data
        /\ \A i, j \in 1..Len(sortedList) :
              i < j =>
                /\ sort.sortKey = "TITLE" =>
                      ~StringLess(sortedList[j].title, sortedList[i].title)
                /\ sort.sortKey = "AUTHOR" =>
                      ~StringLess(sortedList[j].author, sortedList[i].author)
                /\ sort.sortKey = "COMMENT" =>
                      sortedList[i].num_comments >= sortedList[j].num_comments
                /\ sort.sortKey = "POINT" =>
                      sortedList[i].points >= sortedList[j].points

\* three entries by COMMENT, two of them tied, in another order than the data
C10_Witness ==
    /\ sort = [sortKey |-> "COMMENT", isReverse |-> FALSE]
    /\ Len(sortedList) = 3
    /\ sortedList # stories.data
    /\ sortedList[1].num_comments = sortedList[2].num_comments
    /\ sortedList[2].num_comments > sortedList[3].num_comments

\* C11 as stated (Spec, App.js): the history holds at most 5 terms, pairwise
\* distinct, each the term one of the issued urls was built from, the most
\* recent last.
C11_HistoryDistinctTerms ==
    (revision = "App.js" /\ phase # "init") =>
        LET h == getLastSearches(urls)
            n == Len(urls)
        IN  /\ Len(h) <= HistoryLength
            /\ \A i, j \in 1..Len(h) : i # j => h[i] # h[j]
            /\ \A i \in 1..Len(h) :
                  /\ h[i] \in Terms
                  /\ getUrl(h[i]) = urls[n - Len(h) + i]
                  /\ getUrl(h[i]) = requests[n - Len(h) + i].url

\* C12 as stated (Spec, App.js): a click on the history button showing term t
\* appends getUrl(t) to urls and issues the GET against it, whatever the
\* search input holds.
C12_HistoryClickSearchesClickedTerm ==
    [][ lastEvent'.type = "HISTORY" =>
            /\ urls' = Append(urls, getUrl(lastEvent'.term))
            /\ requests'[Len(requests')].url = getUrl(lastEvent'.term)
      ]_vars

\* C13 as stated (Spec): right after useSemiPersistentState('search', 'React')
\* is initialised the held value is the stored string whenever the key is
\* present, and the default when it is absent.
C13_InitialValueIsStoredValue ==
    phase = "init" =>
        IF "search" \in DOMAIN storage
        THEN searchTerm = storage["search"]
        ELSE searchTerm = "React"

\* C14 (Spec): once the first effects have run, and after every input change,
\* the value stored under 'search' is the held search term.
C14_StoreFollowsSearchTerm ==
    phase # "init" =>
        /\ "search" \in DOMAIN storage
        /\ storage["search"] = searchTerm

\* the input was cleared and the store holds the empty string
C14_Witness ==
    /\ lastEvent.type = "INPUT"
    /\ searchTerm = ""
    /\ "search" \in DOMAIN storage
    /\ storage["search"] = ""
    /\ Len(requests) >= 2

\* C15 (SpecReducer): STORIES_FETCH_INIT and STORIES_FETCH_FAILURE leave data
\* as it is, REMOVE_STORY leaves both flags as they are, STORIES_FETCH_SUCCESS
\* replaces data by its payload, and data differs between two consecutive
\* states only across a STORIES_FETCH_SUCCESS or a REMOVE_STORY.
C15_ReducerFrame ==
    [][ /\ lastAction'.type \in {FetchInit, FetchFailure} =>
              stories'.data = stories.data
        /\ lastAction'.type = "REMOVE_STORY" =>
              /\ stories'.isLoading = stories.isLoading
              /\ stories'.isError = stories.isError
        /\ lastAction'.type = FetchSuccess => stories'.data = lastAction'.payload
        /\ stories'.data # stories.data =>
              lastAction'.type \in {FetchSuccess, "REMOVE_STORY"}
      ]_vars

\* a removal that took entries away and kept both flags set
C15_Witness ==
    /\ lastAction.type = "REMOVE_STORY"
    /\ stories.isLoading
    /\ stories.isError
    /\ Len(stories.data) < Len(origData)
    /\ stories.data # <<>>

\* C16 as stated (SpecTraced): when a request rejects, the state after its
\* STORIES_FETCH_FAILURE has isError, not isLoading, and the data held when
\* that request was issued, whatever else happened in between.
C16_FailureKeepsDataOfItsInit ==
    [][ (lastEvent'.type = "RESOLVE" /\ lastEvent'.outcome = "reject") =>
            \A i \in Pending(requests) \ Pending(requests') :
                /\ stories'.isError
                /\ ~stories'.isLoading
                /\ stories'.data = requests[i].dataAtInit
      ]_vars

\* C17 as stated (Spec): while an issued request has not settled, isLoading is
\* true, whatever other submits are made and whatever other requests settle.
C17_PendingImpliesLoading ==
    (phase = "running" /\ Pending(requests) # {}) => stories.isLoading

\* C17 amended (Spec): a request that never settles leaves the UI loading for
\* as long as no other request settles: isLoading is true right after the
\* request is issued and no step other than the settlement of a request makes
\* it false. (The settlement of any other request, older or newer, clears it
\* while the hung request is still outstanding.)
C17_LoadingUntilSomeRequestSettles ==
    [][ /\ Len(requests') > Len(requests) => stories'.isLoading
        /\ (stories.isLoading /\ lastEvent'.type # "RESOLVE") => stories'.isLoading
      ]_vars

\* two requests outstanding, none settled since the last one was issued, and
\* the loading state kept across an input change
C17_Witness ==
    /\ phase = "running"
    /\ stories.isLoading
    /\ lastEvent.type = "INPUT"
    /\ Cardinality(Pending(requests)) >= 2

\* C18 (SpecList, App.js): a click on the header of the active column, the
\* list being the same, turns the view into its exact element-by-element
\* reversal; and whenever isReverse is true the view is the exact reversal of
\* what the base ordering function returns for the list, tied entries
\* included.
C18_ReverseIsExactReversal ==
    [][ /\ ( /\ revision = "App.js"
             /\ lastEvent'.type = "SORT"
             /\ lastEvent'.key = sort.sortKey ) =>
              /\ stories'.data = stories.data
              /\ sortedList' = Reverse(sortedList)
        /\ sort'.isReverse =>
              sortedList' = Reverse(SORTS(sort'.sortKey, stories'.data).out)
      ]_vars

\* Points clicked twice on three entries, two distinct ones tied
C18_Witness ==
    /\ revision = "App.js"
    /\ lastEvent = [type |-> "SORT", key |-> "POINT"]
    /\ sort = [sortKey |-> "POINT", isReverse |-> TRUE]
    /\ Len(sortedList) = 3
    /\ sortedList[2].points = sortedList[3].points
    /\ sortedList[2] # sortedList[3]
    /\ sortedList[1].points < sortedList[2].points

\* C19 as stated (SpecList): the sort derivation applied to its own output
\* returns that output unchanged, for every key, every direction and every
\* list, tied entries included.
C19_SortIsIdempotent ==
    ListRender(sortedList, sort).view = sortedList

\* C20 as stated (Spec): every GET the app issued targets a URL built from a
\* non-empty search term; no request goes to the endpoint with an empty query.
C20_NoGetWithEmptyTerm ==
    \A i \in 1..Len(requests) : requests[i].url # getUrl("")

\* C21 (Spec): in every reachable state, isLoading = TRUE implies that at least
\* one issued request is still outstanding; once every issued request has
\* settled, isLoading is FALSE.
C21_LoadingImpliesPending ==
    stories.isLoading => Pending(requests) # {}

\* loading again after a new search, every earlier request having settled and
\* exactly the new one outstanding
C21_Witness ==
    /\ phase = "running"
    /\ stories.isLoading
    /\ Cardinality(Pending(requests)) = 1
    /\ Len(requests) >= 2
    /\ newestOutcome = NoAction
    /\ lastEvent.type \in {"SUBMIT", "HISTORY"}

====
